---- MODULE Spec2Model ----
(***************************************************************************)
(* A model of lzma-rs' stream header (src/common/lzma.rs) and of its      *)
(* literal-only encoder (src/encode/dumbencoder.rs).                       *)
(*                                                                         *)
(* Integers wider than TLC's are kept as sequences of 16-bit limbs, most   *)
(* significant limb first: a u32 is <<hi, lo>>, a u64 is <<l3,l2,l1,l0>>.  *)
(* A byte stream is a sequence of numbers in 0..255.                       *)
(***************************************************************************)
EXTENDS Integers, Sequences, FiniteSets, TLC

VARIABLES
    \* ---- header session (LzmaParams::write_header / read_header) ----
    hpc,            \* "absent" | "start" | "written" | "read"
    stream,         \* the bytes of the writer / reader (header bytes)
    written,        \* the LzmaParams handed to write_header
    policy,         \* decompress::Options.unpacked_size used by read_header
    result,         \* what read_header returned
    \* ---- encode session (Encoder) ----
    pc,             \* "absent" | "new" | "process" | "done" | "decoded" |
                    \* "failed" (reader error) | "panicked" (index out of bounds)
    input,          \* the bytes the reader handed to process will yield
    rangecoder,     \* Encoder.rangecoder: the calls made on the range coder
    literal_probs,  \* Encoder.literal_probs: [[u16; 0x300]; 8] (cells written)
    is_match,       \* Encoder.is_match: [u16; 4]
    unpacked_size,  \* Encoder.unpacked_size (compress::UnpackedSize)
    prev_byte,      \* process: local prev_byte
    input_len,      \* process: local input_len
    out_len,        \* process: the enumerate() counter of the next byte
    lit_result,     \* encode_literal: local result when it returned
    decoded         \* what a decoder made of stream and rangecoder

evars == <<pc, input, rangecoder, literal_probs, is_match, unpacked_size,
           prev_byte, input_len, out_len, lit_result, decoded>>
vars == <<hpc, stream, written, policy, result, pc, input, rangecoder,
          literal_probs, is_match, unpacked_size, prev_byte, input_len,
          out_len, lit_result, decoded>>

(***************************************************************************)
(* Machine arithmetic                                                      *)
(***************************************************************************)
Pow2(n) == 2 ^ n

shr(x, n) == x \div Pow2(n)

shl(x, n) == x * Pow2(n)

RECURSIVE BitAnd(_, _)
BitAnd(x, y) ==
    IF x = 0 \/ y = 0 THEN 0
    ELSE (IF x % 2 = 1 /\ y % 2 = 1 THEN 1 ELSE 0) + 2 * BitAnd(x \div 2, y \div 2)

RECURSIVE BitXor(_, _)
BitXor(x, y) ==
    IF x = 0 THEN y
    ELSE IF y = 0 THEN x
    ELSE (IF x % 2 = y % 2 THEN 0 ELSE 1) + 2 * BitXor(x \div 2, y \div 2)

RECURSIVE BitOr(_, _)
BitOr(x, y) ==
    IF x = 0 THEN y
    ELSE IF y = 0 THEN x
    ELSE (IF x % 2 = 1 \/ y % 2 = 1 THEN 1 ELSE 0) + 2 * BitOr(x \div 2, y \div 2)

Rep(n, x) == [i \in 1..n |-> x]

Take(s, n) == SubSeq(s, 1, IF n < Len(s) THEN n ELSE Len(s))

Drop(s, n) == SubSeq(s, n + 1, Len(s))

\* Option<u64>
None == [some |-> FALSE, v |-> <<0, 0, 0, 0>>]

Some(v) == [some |-> TRUE, v |-> v]

\* a small number as a u64
U64(n) == <<0, 0, 0, n>>

\* 0xFFFF_FFFF_FFFF_FFFF
U64Max == <<65535, 65535, 65535, 65535>>

(***************************************************************************)
(* byteorder: little-endian writes and reads of limb sequences             *)
(***************************************************************************)
RECURSIVE write_le(_)
write_le(v) ==
    IF v = <<>> THEN <<>>
    ELSE <<v[Len(v)] % 256, v[Len(v)] \div 256>> \o write_le(SubSeq(v, 1, Len(v) - 1))

RECURSIVE read_le(_)
read_le(bs) ==
    IF bs = <<>> THEN <<>>
    ELSE read_le(Drop(bs, 2)) \o <<bs[1] + 256 * bs[2]>>

(***************************************************************************)
(* LzmaParams::write_header                                                *)
(***************************************************************************)
props_byte(lc, lp, pb) == (lc + 9 * (lp + 5 * pb)) % 256

write_header(p) ==
    <<props_byte(p.properties.lc, p.properties.lp, p.properties.pb)>>
    \o write_le(p.dict_size)
    \o (IF p.unpacked_size.some THEN write_le(p.unpacked_size.v) ELSE <<>>)

(***************************************************************************)
(* LzmaParams::read_header                                                 *)
(***************************************************************************)
NoParams ==
    [properties |-> [lc |-> 0, lp |-> 0, pb |-> 0],
     dict_size |-> <<0, 0>>, unpacked_size |-> None]

\* read_u8 / read_u32 / read_u64 succeed when n more bytes are there
can_read(bytes, at, n) == Len(bytes) - at >= n

props_invalid_mut(pb) == pb > 225

props_invalid(pb) == pb >= 225

\* dict_size_provided < 0x1000 ? 0x1000 : dict_size_provided
clamp_dict_size(d) == IF d[1] = 0 /\ d[2] < 4096 THEN <<0, 4096>> ELSE d

marker_mandatory_mut(v) == v = <<0, 0, 0, 0>>

marker_mandatory(v) == v = U64Max

reads_size_field_mut(opt) == opt.tag = "ReadFromHeader"

\* the arms of `match options.unpacked_size` that call read_u64
reads_size_field(opt) == opt.tag \in {"ReadFromHeader", "ReadHeaderButUseProvided"}

size_from_header(opt, v) ==
    IF opt.tag = "ReadFromHeader"
    THEN (IF marker_mandatory(v) THEN None ELSE Some(v))
    ELSE opt.x

\* consumed counts the bytes of the reads that completed; a read that fails
\* leaves the reader's cursor unspecified
read_header(bytes, opt) ==
    IF ~can_read(bytes, 0, 1)
    THEN [kind |-> "HeaderTooShort", params |-> NoParams, consumed |-> 0]
    ELSE
    LET props == bytes[1]
        lc == props % 9
        pb1 == props \div 9
        lp == pb1 % 5
        pb == pb1 \div 5
    IN  IF props_invalid(props)
        THEN [kind |-> "LzmaError", params |-> NoParams, consumed |-> 1]
        ELSE IF ~can_read(bytes, 1, 4)
        THEN [kind |-> "HeaderTooShort", params |-> NoParams, consumed |-> 1]
        ELSE
        LET dict_size == clamp_dict_size(read_le(SubSeq(bytes, 2, 5)))
        IN  IF reads_size_field(opt) /\ ~can_read(bytes, 5, 8)
            THEN [kind |-> "HeaderTooShort", params |-> NoParams, consumed |-> 5]
            ELSE
            [kind |-> "Ok",
             params |->
                [properties |-> [lc |-> lc, lp |-> lp, pb |-> pb],
                 dict_size |-> dict_size,
                 unpacked_size |->
                    size_from_header(opt,
                        IF reads_size_field(opt)
                        THEN read_le(SubSeq(bytes, 6, 13)) ELSE U64(0))],
             consumed |-> IF reads_size_field(opt) THEN 13 ELSE 5]

(***************************************************************************)
(* The header session: a writer that write_header fills, or bytes from     *)
(* elsewhere, and one read_header over them.                               *)
(***************************************************************************)
\* decompress::UnpackedSize
ReadFromHeader == [tag |-> "ReadFromHeader", x |-> None]

ReadHeaderButUseProvided(x) == [tag |-> "ReadHeaderButUseProvided", x |-> x]

UseProvided(x) == [tag |-> "UseProvided", x |-> x]

Provided == {None, Some(U64(5)), Some(U64Max)}

Policies ==
    {ReadFromHeader}
    \cup {ReadHeaderButUseProvided(x) : x \in Provided}
    \cup {UseProvided(x) : x \in Provided}

\* dict_size values around the 0x1000 minimum, DICT_SIZE, and u32::MAX
DictSizes == {<<0, 0>>, <<0, 4095>>, <<0, 4096>>, <<128, 0>>, <<65535, 65535>>}

SizeOptions ==
    {None, Some(U64(0)), Some(<<0, 1, 0, 4660>>), Some(U64Max),
     Some(<<65535, 65535, 65535, 65534>>)}

\* every LzmaParams that LzmaProperties::validate accepts, over those values
ParamSet ==
    {[properties |-> [lc |-> lc, lp |-> lp, pb |-> pb],
      dict_size |-> d, unpacked_size |-> u] :
        lc \in 0..8, lp \in 0..4, pb \in 0..4, d \in DictSizes, u \in SizeOptions}

DictFields == {<<0, 0, 0, 0>>, <<255, 15, 0, 0>>, <<1, 2, 3, 4>>}

SizeFields ==
    {Rep(8, 255), Rep(8, 0), <<254>> \o Rep(7, 255)}

Trailing == {<<>>, <<0>>}

\* headers from elsewhere: every first byte, whole or cut short anywhere
RawInputs ==
    UNION {{Take(<<b>> \o d \o s \o t, k) : k \in 0..Len(<<b>> \o d \o s \o t)} :
            b \in 0..255, d \in DictFields, s \in SizeFields, t \in Trailing}

NoResult == [kind |-> "none", params |-> NoParams, consumed |-> 0]

NoDecoded == [status |-> "none", output |-> <<>>]

\* the encoder does not exist in a header session
EncAbsent ==
    /\ pc = "absent"
    /\ input = <<>>
    /\ rangecoder = <<>>
    /\ literal_probs = <<>>
    /\ is_match = <<>>
    /\ unpacked_size = [tag |-> "SkipWritingToHeader", x |-> None]
    /\ prev_byte = 0
    /\ input_len = 0
    /\ out_len = 0
    /\ lit_result = 0
    /\ decoded = NoDecoded

InitHeader ==
    /\ hpc = "start"
    /\ stream \in RawInputs
    /\ written = [done |-> FALSE, p |-> NoParams]
    /\ policy = ReadFromHeader
    /\ result = NoResult
    /\ EncAbsent

\* p.write_header(&mut stream) on an empty writer
WriteHeader ==
    /\ hpc = "start"
    /\ stream = <<>>
    /\ \E p \in ParamSet :
        /\ stream' = stream \o write_header(p)
        /\ written' = [done |-> TRUE, p |-> p]
    /\ hpc' = "written"
    /\ UNCHANGED <<policy, result>>
    /\ UNCHANGED evars

\* LzmaParams::read_header(&mut stream, &options)
ReadHeader ==
    /\ hpc \in {"start", "written"}
    /\ \E opt \in Policies :
        /\ policy' = opt
        /\ result' = read_header(stream, opt)
    /\ hpc' = "read"
    /\ UNCHANGED <<stream, written>>
    /\ UNCHANGED evars

NextHeader == WriteHeader \/ ReadHeader

SpecHeader == InitHeader /\ [][NextHeader]_vars

(***************************************************************************)
(* Header claims (checked under SpecHeader)                                *)
(***************************************************************************)
\* what a round trip is said to give back for p
RoundTripOf(p) ==
    [p EXCEPT
        !.dict_size = IF p.dict_size[1] = 0 /\ p.dict_size[2] < 4096
                      THEN <<0, 4096>> ELSE p.dict_size,
        !.unpacked_size = IF p.unpacked_size = Some(U64Max)
                          THEN None ELSE p.unpacked_size]

ReadBack == hpc = "read" /\ written.done /\ policy = ReadFromHeader

\* C1: reading with ReadFromHeader what write_header(p) wrote succeeds and
\* returns p, but for dict_size < 0x1000 -> 0x1000 and Some(u64::MAX) -> None,
\* for every valid p, unpacked_size None included.
C1_HeaderRoundTrip ==
    ReadBack => result.kind = "Ok" /\ result.params = RoundTripOf(written.p)

\* the part of C1 the code does keep: it holds of every p with a size
C1_RoundTripWithSize ==
    (ReadBack /\ written.p.unpacked_size.some)
        => result.kind = "Ok" /\ result.params = RoundTripOf(written.p)

\* the bytes the policy makes read_header read
HeaderLen(opt) == IF opt.tag = "UseProvided" THEN 5 ELSE 13

\* C6: a first byte in 225..=255 gives the invalid-properties error; a first
\* byte b in 0..=224 never does, and a header read from it has lc = b mod 9,
\* lp = (b div 9) mod 5, pb = b div 45, within 8, 4, 4, and
\* lc + 9*(lp + 5*pb) = b.
C6_PropertiesByte ==
    (hpc = "read" /\ Len(stream) >= 1) =>
        LET b == stream[1]
            q == result.params.properties
        IN  /\ (b >= 225) <=> (result.kind = "LzmaError")
            /\ result.kind = "Ok" =>
                /\ q.lc = b % 9
                /\ q.lp = (b \div 9) % 5
                /\ q.pb = b \div 45
                /\ q.lc <= 8 /\ q.lp <= 4 /\ q.pb <= 4
                /\ q.lc + 9 * (q.lp + 5 * q.pb) = b

C6_Witness ==
    /\ hpc = "read"
    /\ Len(stream) >= 13
    /\ stream[1] = 224
    /\ result.kind = "Ok"
    /\ result.params.properties = [lc |-> 8, lp |-> 4, pb |-> 4]

\* C7 as stated: an input shorter than the header the policy asks for gives
\* HeaderTooShort, never Ok and never the invalid-properties error.
C7_TooShortAsStated ==
    (hpc = "read" /\ Len(stream) < HeaderLen(policy))
        => result.kind = "HeaderTooShort"

\* C7 amended: an input shorter than the header the policy asks for gives
\* HeaderTooShort when it is empty or its first byte is below 225, and the
\* invalid-properties error when its first byte is 225 or more; an input that
\* is long enough never gives HeaderTooShort.
C7_TooShort ==
    hpc = "read" =>
        /\ (Len(stream) < HeaderLen(policy) /\ (stream = <<>> \/ stream[1] < 225))
                => result.kind = "HeaderTooShort"
        /\ (Len(stream) < HeaderLen(policy) /\ stream # <<>> /\ stream[1] >= 225)
                => result.kind = "LzmaError"
        /\ Len(stream) >= HeaderLen(policy) => result.kind # "HeaderTooShort"

C7_Witness ==
    /\ hpc = "read"
    /\ policy.tag = "ReadHeaderButUseProvided"
    /\ Len(stream) = 12
    /\ stream[1] < 225
    /\ result.kind = "HeaderTooShort"

\* the 8-byte field of a header, as a u64
SizeFieldOf(bytes) ==
    <<bytes[12] + 256 * bytes[13], bytes[10] + 256 * bytes[11],
      bytes[8] + 256 * bytes[9], bytes[6] + 256 * bytes[7]>>

\* C8: on a well-formed header, ReadFromHeader consumes 13 bytes and returns
\* None exactly when the field is all ones, Some(field) otherwise;
\* ReadHeaderButUseProvided(x) consumes 13 bytes and returns x; UseProvided(x)
\* consumes 5 bytes and returns x.
C8_SizePolicy ==
    (hpc = "read" /\ Len(stream) >= HeaderLen(policy) /\ stream[1] < 225) =>
        /\ result.kind = "Ok"
        /\ policy.tag = "ReadFromHeader" =>
            /\ result.consumed = 13
            /\ (result.params.unpacked_size = None)
                    <=> (\A i \in 6..13 : stream[i] = 255)
            /\ (\E i \in 6..13 : stream[i] # 255)
                    => result.params.unpacked_size = Some(SizeFieldOf(stream))
        /\ policy.tag = "ReadHeaderButUseProvided" =>
            /\ result.consumed = 13
            /\ result.params.unpacked_size = policy.x
        /\ policy.tag = "UseProvided" =>
            /\ result.consumed = 5
            /\ result.params.unpacked_size = policy.x

C8_Witness ==
    /\ hpc = "read"
    /\ policy = UseProvided(Some(U64(5)))
    /\ Len(stream) = 14
    /\ result.kind = "Ok"
    /\ result.consumed = 5
    /\ result.params.unpacked_size = Some(U64(5))

(***************************************************************************)
(* rangecoder::RangeEncoder, as the encoder sees it: the calls made on it, *)
(* in order, each with the probability cell it was handed, and the         *)
(* adaptation of that cell.  The interval arithmetic is not modelled.      *)
(***************************************************************************)
\* encode_bit(&mut prob, bit): the cell after the call
encode_bit(prob, bit) ==
    IF bit THEN prob - shr(prob, 5) ELSE prob + shr(2048 - prob, 5)

\* one call of encode_bit, as the range coder records it
Call(cell, prob, bit) == [op |-> "encode_bit", cell |-> cell, prob |-> prob, bit |-> bit]

\* the call of rangecoder.finish()
FinishCall == [op |-> "finish", cell |-> <<>>, prob |-> 0, bit |-> FALSE]

(***************************************************************************)
(* Encoder                                                                 *)
(***************************************************************************)
LC == 3

LP == 0

PB == 2

\* 0x0080_0000
DICT_SIZE == <<128, 0>>

\* the initial value of every probability cell, and of every `&mut 0x400`
ProbInit == 1024

\* literal_probs: [[u16; 0x300]; 8], the trees and the cells of a tree
Trees == 0..7

TreeCells == 0..767

\* An array filled with 0x400 is kept as the cells written since: a cell not
\* written yet holds ProbInit.
FreshCells == <<>>

\* probs[i]
ProbAt(probs, i) == IF i \in DOMAIN probs THEN probs[i] ELSE ProbInit

\* probs[i] = v
SetProb(probs, i, v) ==
    [j \in (DOMAIN probs) \cup {i} |-> IF j = i THEN v ELSE probs[j]]

\* compress::UnpackedSize
WriteToHeader(x) == [tag |-> "WriteToHeader", x |-> x]

SkipWritingToHeader == [tag |-> "SkipWritingToHeader", x |-> None]

\* the value from_stream writes into the header's size field
size_field_value(x) == IF x.some THEN x.v ELSE U64Max

\* the bytes from_stream writes before it builds the encoder
from_stream_header(opt) ==
    <<(LC + 9 * (LP + 5 * PB)) % 256>>
    \o write_le(DICT_SIZE)
    \o (IF opt.tag = "WriteToHeader" THEN write_le(size_field_value(opt.x)) ELSE <<>>)

pos_state_of_mut(n) == BitAnd(n, 1)

\* process: out_len & 3
pos_state_of(n) == BitAnd(n, 3)

\* finish: input_len & 3
finish_pos_state(n) == BitAnd(n, 3)

\* process: the argument of self.finish(..)
finish_arg(n) == n + 1

lit_state_of_mut(prev) == shr(prev, 4)

\* encode_literal: prev_byte >> 5
lit_state_of(prev) == shr(prev, 5)

literal_bit_mut(byte, i) == BitAnd(shr(byte, i), 1) # 0

\* encode_literal: ((byte >> (7 - i)) & 1) != 0
literal_bit(byte, i) == BitAnd(shr(byte, 7 - i), 1) # 0

\* encode_literal: (result << 1) ^ (bit as usize)
next_result(r, bit) == BitXor(shl(r, 1), IF bit THEN 1 ELSE 0)

\* encode_literal's loop from round i on, over the tree probs;
\* st = [probs, result, calls, ok], ok false once an index is out of bounds
RECURSIVE literal_loop(_, _, _, _)
literal_loop(st, lit_state, byte, i) ==
    IF i = 8 \/ ~st.ok THEN st
    ELSE IF st.result \notin TreeCells THEN [st EXCEPT !.ok = FALSE]
    ELSE
    LET bit == literal_bit(byte, i)
        p == ProbAt(st.probs, st.result)
    IN  literal_loop(
            [probs |-> SetProb(st.probs, st.result, encode_bit(p, bit)),
             result |-> next_result(st.result, bit),
             calls |-> Append(st.calls, Call(<<"literal", lit_state, st.result>>, p, bit)),
             ok |-> TRUE],
            lit_state, byte, i + 1)

\* encode_literal(byte, prev_byte) over literal_probs lp
encode_literal(lp, byte, prev) ==
    LET lit_state == lit_state_of(prev)
    IN  IF lit_state \notin DOMAIN lp
        THEN [literal_probs |-> lp, result |-> 1, calls |-> <<>>, ok |-> FALSE]
        ELSE
        LET st == literal_loop([probs |-> lp[lit_state], result |-> 1,
                                calls |-> <<>>, ok |-> TRUE], lit_state, byte, 0)
        IN  [literal_probs |-> [lp EXCEPT ![lit_state] = st.probs],
             result |-> st.result, calls |-> st.calls, ok |-> st.ok]

writes_end_marker_mut(opt) == opt.tag = "WriteToHeader"

\* finish: the arm of `match self.unpacked_size` that writes the marker
writes_end_marker(opt) == opt.tag = "WriteToHeader" /\ ~opt.x.some

end_marker_tail_mut ==
    <<FALSE>> \o Rep(4, FALSE) \o Rep(6, TRUE) \o Rep(29, TRUE)

\* finish: the bits coded after the opening is_match bit
end_marker_tail ==
    <<FALSE>> \o Rep(4, FALSE) \o Rep(6, TRUE) \o Rep(30, TRUE)

\* finish: those bits, each coded against its own `&mut 0x400`
end_marker_calls ==
    [i \in 1..Len(end_marker_tail) |-> Call(<<"temp">>, ProbInit, end_marker_tail[i])]

(***************************************************************************)
(* A decoder of the format: the literal/match state machine reading the    *)
(* header with read_header and then the coded decisions.  decode_bit gives *)
(* back the bit that was coded when its cell holds the probability the     *)
(* encoder's cell held; otherwise the two have lost step ("desync").       *)
(***************************************************************************)
\* the match fields of the end-of-stream marker: new distance, length 0,
\* distance slot 63, 30 direct bits
DecEndMarker ==
    [i \in 1..41 |-> i > 5]

\* the literal tree walk from round i on; st = [status, probs, index, k]
RECURSIVE dec_literal(_, _, _)
dec_literal(decs, st, i) ==
    IF i = 8 \/ st.status # "ok" THEN st
    ELSE IF st.k > Len(decs) THEN [st EXCEPT !.status = "eof"]
    ELSE IF decs[st.k].prob # ProbAt(st.probs, st.index)
    THEN [st EXCEPT !.status = "desync"]
    ELSE
    LET bit == decs[st.k].bit
    IN  dec_literal(decs,
            [status |-> "ok",
             probs |-> SetProb(st.probs, st.index,
                                encode_bit(ProbAt(st.probs, st.index), bit)),
             index |-> BitOr(shl(st.index, 1), IF bit THEN 1 ELSE 0),
             k |-> st.k + 1],
            i + 1)

\* the match fields read at decs[k..]: "end" for the end marker
dec_match(decs, k) ==
    IF k + Len(DecEndMarker) - 1 > Len(decs) THEN "eof"
    ELSE IF \E i \in 1..Len(DecEndMarker) : decs[k + i - 1].prob # ProbInit THEN "desync"
    ELSE IF \A i \in 1..Len(DecEndMarker) : decs[k + i - 1].bit = DecEndMarker[i] THEN "end"
    ELSE "match"

\* the decoder's loop; d = [k, out, lit, ism], p the header's parameters
RECURSIVE dec_loop(_, _, _)
dec_loop(decs, p, d) ==
    IF p.unpacked_size.some /\ p.unpacked_size.v = U64(Len(d.out))
    THEN [status |-> "ok", output |-> d.out]
    ELSE IF d.k > Len(decs) THEN [status |-> "eof", output |-> d.out]
    ELSE
    LET pos_state == BitAnd(Len(d.out), shl(1, p.properties.pb) - 1)
        last_byte == IF d.out = <<>> THEN 0 ELSE d.out[Len(d.out)]
        lit_state == shr(last_byte, 8 - p.properties.lc)
        m == decs[d.k]
    IN  IF m.prob # d.ism[pos_state] THEN [status |-> "desync", output |-> d.out]
        ELSE IF m.bit
        THEN LET f == dec_match(decs, d.k + 1)
             IN  [status |-> IF f = "end" THEN "ok" ELSE f, output |-> d.out]
        ELSE
        LET st == dec_literal(decs,
                    [status |-> "ok", probs |-> d.lit[lit_state], index |-> 1,
                     k |-> d.k + 1], 0)
        IN  IF st.status # "ok" THEN [status |-> st.status, output |-> d.out]
            ELSE dec_loop(decs, p,
                    [k |-> st.k,
                     out |-> Append(d.out, st.index - 256),
                     lit |-> [d.lit EXCEPT ![lit_state] = st.probs],
                     ism |-> [d.ism EXCEPT ![pos_state] = encode_bit(@, FALSE)]])

\* decoding the header bytes and the coded decisions of a finished stream
decode(bytes, calls) ==
    LET h == read_header(bytes, ReadFromHeader)
        decs == SelectSeq(calls, LAMBDA c : c.op = "encode_bit")
    IN  IF h.kind # "Ok" THEN [status |-> "header", output |-> <<>>]
        ELSE dec_loop(decs, h.params,
                [k |-> 1, out |-> <<>>,
                 lit |-> [t \in 0..(shl(1, h.params.properties.lc + h.params.properties.lp) - 1)
                            |-> FreshCells],
                 ism |-> [n \in 0..(shl(1, h.params.properties.pb) - 1) |-> ProbInit]])

(***************************************************************************)
(* The encode session: from_stream on an empty writer, process over the    *)
(* input, and a decoder over what was written.                             *)
(***************************************************************************)
MaxLen == 4

Bytes == {0, 32, 129, 255}

RECURSIVE SeqsUpTo(_, _)
SeqsUpTo(S, n) ==
    IF n = 0 THEN {<<>>}
    ELSE LET shorter == SeqsUpTo(S, n - 1)
         IN  shorter \cup {Append(q, x) : q \in {r \in shorter : Len(r) = n - 1}, x \in S}

Inputs == SeqsUpTo(Bytes, MaxLen)

EncodeOptions ==
    {SkipWritingToHeader, WriteToHeader(None), WriteToHeader(Some(U64Max))}
    \cup {WriteToHeader(Some(U64(n))) : n \in 0..MaxLen}

HeaderAbsent ==
    /\ hpc = "absent"
    /\ written = [done |-> FALSE, p |-> NoParams]
    /\ policy = ReadFromHeader
    /\ result = NoResult

\* before from_stream: an empty writer, an input, the caller's options
InitWith(ins, opts) ==
    /\ HeaderAbsent
    /\ stream = <<>>
    /\ pc = "new"
    /\ input \in ins
    /\ unpacked_size \in opts
    /\ rangecoder = <<>>
    /\ literal_probs = <<>>
    /\ is_match = <<>>
    /\ prev_byte = 0
    /\ input_len = 0
    /\ out_len = 0
    /\ lit_result = 0
    /\ decoded = NoDecoded

Init == InitWith(Inputs, EncodeOptions)

hrest == <<hpc, written, policy, result>>

\* Encoder::from_stream(&mut stream, &options), then process entered
FromStream ==
    /\ pc = "new"
    /\ stream' = stream \o from_stream_header(unpacked_size)
    /\ rangecoder' = <<>>
    /\ literal_probs' = [t \in Trees |-> FreshCells]
    /\ is_match' = [n \in 0..3 |-> ProbInit]
    /\ prev_byte' = 0
    /\ input_len' = 0
    /\ out_len' = 0
    /\ pc' = "process"
    /\ UNCHANGED <<input, unpacked_size, lit_result, decoded>>
    /\ UNCHANGED hrest

\* process: one round of the loop over input.bytes().enumerate()
ProcessByte ==
    /\ pc = "process"
    /\ out_len < Len(input)
    /\ \E lit \in {encode_literal(literal_probs, input[out_len + 1], prev_byte)} :
       LET byte == input[out_len + 1]
           pos_state == pos_state_of(out_len)
       IN  IF pos_state \notin DOMAIN is_match \/ ~lit.ok
           THEN /\ pc' = "panicked"
                /\ UNCHANGED <<rangecoder, literal_probs, is_match, prev_byte,
                               input_len, out_len, lit_result>>
           ELSE /\ input_len' = out_len
                /\ is_match' = [is_match EXCEPT ![pos_state] = encode_bit(@, FALSE)]
                /\ rangecoder' = rangecoder
                        \o <<Call(<<"is_match", pos_state>>, is_match[pos_state], FALSE)>>
                        \o lit.calls
                /\ literal_probs' = lit.literal_probs
                /\ lit_result' = lit.result
                /\ prev_byte' = byte
                /\ out_len' = out_len + 1
                /\ pc' = "process"
    /\ UNCHANGED <<input, unpacked_size, stream, decoded>>
    /\ UNCHANGED hrest

\* process: the reader fails (byte_result?), process returns the error
ProcessReadError ==
    /\ pc = "process"
    /\ pc' = "failed"
    /\ UNCHANGED <<input, rangecoder, literal_probs, is_match, unpacked_size,
                   prev_byte, input_len, out_len, lit_result, decoded, stream>>
    /\ UNCHANGED hrest

\* process: the input is at its end, self.finish(input_len + 1)
Finish ==
    /\ pc = "process"
    /\ out_len = Len(input)
    /\ LET pos_state == finish_pos_state(finish_arg(input_len))
       IN  IF writes_end_marker(unpacked_size)
           THEN /\ is_match' = [is_match EXCEPT ![pos_state] = encode_bit(@, TRUE)]
                /\ rangecoder' = rangecoder
                        \o <<Call(<<"is_match", pos_state>>, is_match[pos_state], TRUE)>>
                        \o end_marker_calls
                        \o <<FinishCall>>
           ELSE /\ is_match' = is_match
                /\ rangecoder' = rangecoder \o <<FinishCall>>
    /\ pc' = "done"
    /\ UNCHANGED <<input, literal_probs, unpacked_size, prev_byte, input_len,
                   out_len, lit_result, decoded, stream>>
    /\ UNCHANGED hrest

\* a decoder run over the finished stream
Decompress ==
    /\ pc = "done"
    /\ decoded' = decode(stream, rangecoder)
    /\ pc' = "decoded"
    /\ UNCHANGED <<input, rangecoder, literal_probs, is_match, unpacked_size,
                   prev_byte, input_len, out_len, lit_result, stream>>
    /\ UNCHANGED hrest

Next == FromStream \/ ProcessByte \/ ProcessReadError \/ Finish \/ Decompress

Spec == Init /\ [][Next]_vars

(***************************************************************************)
(* Encoder claims (checked under Spec; C9 under SpecLit)                   *)
(***************************************************************************)
Finished == pc \in {"done", "decoded"}

UnknownSize == unpacked_size = WriteToHeader(None)

\* the calls finish made before the flush
FinishCalls == SubSeq(rangecoder, 9 * Len(input) + 1, Len(rangecoder) - 1)

\* the marker as the claims spell it: is_match, new distance, 4 length bits,
\* 6 distance-slot bits, 30 direct bits
StatedMarker ==
    <<TRUE, FALSE>> \o Rep(4, FALSE) \o Rep(6, TRUE) \o Rep(30, TRUE)

\* C2: what the encoder wrote for an input decodes to that input, with the
\* size unknown (end marker) and with the size of the input in the header.
C2_RoundTrip ==
    (pc = "decoded"
     /\ (UnknownSize \/ unpacked_size = WriteToHeader(Some(U64(Len(input))))))
        => decoded = [status |-> "ok", output |-> input]

C2_Witness ==
    /\ pc = "decoded"
    /\ UnknownSize
    /\ input = <<32, 32, 255>>
    /\ decoded = [status |-> "ok", output |-> <<32, 32, 255>>]

\* C3 as stated: with the size unknown, finish appends exactly 41 decisions
\* before the flush, and they are the end-of-stream pattern.
C3_FortyOneDecisions ==
    (Finished /\ UnknownSize) =>
        /\ Len(FinishCalls) = 41
        /\ \A i \in 1..Len(FinishCalls) : FinishCalls[i].bit = StatedMarker[i]

\* C3 amended: with the size unknown, finish appends after the last literal
\* exactly the 42 decisions is_match = true, new distance = false, 4 length
\* bits false, 6 distance-slot bits true, 30 direct bits true, and then
\* flushes; before them come 9 decisions for each input byte.
C3_EndMarker ==
    (Finished /\ UnknownSize) =>
        /\ Len(rangecoder) = 9 * Len(input) + 42 + 1
        /\ rangecoder[Len(rangecoder)].op = "finish"
        /\ \A i \in 1..42 :
            /\ FinishCalls[i].op = "encode_bit"
            /\ FinishCalls[i].bit = StatedMarker[i]
        /\ FinishCalls[1].cell[1] = "is_match"
        /\ \A k \in 0..(Len(input) - 1) :
            /\ rangecoder[9 * k + 1].cell[1] = "is_match"
            /\ ~rangecoder[9 * k + 1].bit
            /\ \A i \in 2..9 : rangecoder[9 * k + i].cell[1] = "literal"

C3_Witness ==
    /\ pc = "done"
    /\ UnknownSize
    /\ Len(input) = 2
    /\ Len(rangecoder) = 61
    /\ rangecoder[19].bit
    /\ ~rangecoder[20].bit
    /\ rangecoder[60].bit

\* the calls that code is_match = true
MatchCalls ==
    {j \in 1..Len(rangecoder) :
        /\ rangecoder[j].op = "encode_bit"
        /\ rangecoder[j].cell[1] = "is_match"
        /\ rangecoder[j].bit}

FlushCalls == {j \in 1..Len(rangecoder) : rangecoder[j].op = "finish"}

C5_PosState ==
    /\ \A k \in 0..(out_len - 1) :
        rangecoder[9 * k + 1].cell = <<"is_match", k % 4>>
    /\ (Finished /\ UnknownSize) =>
        rangecoder[9 * Len(input) + 1].cell = <<"is_match", Len(input) % 4>>

\* the part of C5 the code keeps: every n >= 1
C5_PosStateNonEmpty ==
    /\ \A k \in 0..(out_len - 1) :
        rangecoder[9 * k + 1].cell = <<"is_match", k % 4>>
    /\ (Finished /\ UnknownSize /\ Len(input) >= 1) =>
        rangecoder[9 * Len(input) + 1].cell = <<"is_match", Len(input) % 4>>

\* the i-th literal call (i in 0..7) of the k-th byte (k from 0)
LitCall(k, i) == rangecoder[9 * k + 2 + i]

\* C9: the 8 bits of each byte are coded from the most significant down,
\* against the tree prev_byte >> 5 (within 0..7), at index 1 first and then
\* (index << 1) | bit; the index at depth i is within 2^i .. 2^(i+1) - 1, so
\* within 1..255 and within the tree, and ends as 256 + byte.
C9_LiteralWalk ==
    /\ pc # "panicked"
    /\ \A k \in 0..(out_len - 1) :
        LET byte == input[k + 1]
            prev == IF k = 0 THEN 0 ELSE input[k]
        IN  \A i \in 0..7 :
            LET c == LitCall(k, i)
                index == c.cell[3]
                b == IF c.bit THEN 1 ELSE 0
            IN  /\ c.cell[1] = "literal"
                /\ c.cell[2] = prev \div 32
                /\ c.cell[2] \in 0..7
                /\ b = (byte \div (2 ^ (7 - i))) % 2
                /\ i = 0 => index = 1
                /\ index >= 2 ^ i /\ index <= 2 ^ (i + 1) - 1
                /\ index \in 1..255
                /\ index < 768
                /\ i < 7 => LitCall(k, i + 1).cell[3] = BitOr(index * 2, b)
                /\ i = 7 => BitOr(index * 2, b) = 256 + byte
    /\ out_len >= 1 => lit_result = 256 + input[out_len]

C9_Witness ==
    /\ out_len = 2
    /\ input = <<255, 170>>
    /\ lit_result = 256 + 170
    /\ LitCall(1, 0).cell = <<"literal", 7, 1>>
    /\ LitCall(1, 7).cell = <<"literal", 7, 128 + 85>>

\* C10: writing the end marker changes no literal_probs cell and at most one
\* is_match cell, the one its is_match bit is coded against, every other
\* marker bit being coded against a fresh 0x400; coding a literal changes
\* only cells of the tree prev_byte >> 5 and the is_match cell of its
\* pos_state.
C10_Frame ==
    [][/\ (pc = "process" /\ pc' = "done") =>
            /\ literal_probs' = literal_probs
            /\ Cardinality({i \in 0..3 : is_match'[i] # is_match[i]}) <= 1
            /\ \A i \in 0..3 : is_match'[i] # is_match[i] =>
                    rangecoder'[Len(rangecoder) + 1].cell = <<"is_match", i>>
            /\ \A j \in (Len(rangecoder) + 2)..(Len(rangecoder') - 1) :
                    /\ rangecoder'[j].cell = <<"temp">>
                    /\ rangecoder'[j].prob = 1024
       /\ (pc = "process" /\ pc' = "process") =>
            /\ \A t \in 0..7 : t # prev_byte \div 32 =>
                    literal_probs'[t] = literal_probs[t]
            /\ \A i \in 0..3 : i # out_len % 4 => is_match'[i] = is_match[i]
      ]_vars

C10_Witness ==
    /\ pc = "done"
    /\ UnknownSize
    /\ Len(input) = 2
    /\ is_match = [n \in 0..3 |-> IF n = 2 THEN 992 ELSE IF n = 3 THEN 1024 ELSE 1056]

(***************************************************************************)
(* The literal session: from_stream (no size field) and process over two   *)
(* bytes, for every pair of bytes.                                         *)
(***************************************************************************)
BytePairs == {<<a, b>> : a \in 0..255, b \in 0..255}

InitLit == InitWith(BytePairs, {SkipWritingToHeader})

NextLit == FromStream \/ ProcessByte

SpecLit == InitLit /\ [][NextLit]_vars

====
